---- MODULE Spec2Model ----
(***************************************************************************)
(* GVariant reader of ell (src/ell/gvariant-util.c): the signature walker, *)
(* the frame layout analyser (gvariant_iter_init_internal), the iterator   *)
(* step (next_item) and the extraction entry points.                       *)
(*                                                                         *)
(* Characters and data bytes are integers (ASCII codes): a variant keeps   *)
(* its signature inside the data frame, so both live in one byte domain.   *)
(* A pointer is a record [seg, off]: the segment it points into ("sig" is  *)
(* the caller's signature string, "data" the caller's frame, "null" is     *)
(* NULL) and the byte offset inside that segment.                          *)
(* A size_t is kept as the signed integer congruent to it modulo 2^64:     *)
(* a negative integer -m stands for 2^64 - m, and comparisons of size_t    *)
(* values go through ULt/ULe/UGt.                                          *)
(***************************************************************************)
EXTENDS Integers, Sequences, FiniteSets, TLC

\* ---------------------------------------------------------------- bounds
MaxLen == 3
MaxByte == 3
MaxSigLen == 4
WidthSpan == 4

\* ------------------------------------------------------------ characters
CH_a == 97
CH_v == 118
CH_s == 115
CH_y == 121
CH_n == 110
CH_i == 105
CH_x == 120
CH_lparen == 40
CH_rparen == 41
CH_lbrace == 123
CH_rbrace == 125

\* "sogybnqiuxtdh"
simple_types == {115, 111, 103, 121, 98, 110, 113, 105, 117, 120, 116, 100, 104}
\* "sogav"
variable_types == {115, 111, 103, 97, 118}
\* "bynqhiuxtd"
fixed_types == {98, 121, 110, 113, 104, 105, 117, 120, 116, 100}

\* --------------------------------------------------------------- size_t
ULt(a, b) == IF (a >= 0) = (b >= 0) THEN a < b ELSE a >= 0
ULe(a, b) == a = b \/ ULt(a, b)
UGt(a, b) == ULt(b, a)
UGe(a, b) == ULe(b, a)

\* A read of an 8-byte word whose upper five bytes are not all zero: a value
\* in [2^24, 2^63), above every length of the model and below every wrapped
\* size_t.
BigWord == 1073741824

align_len(len, boundary) ==
    IF boundary = 0 THEN 0
    ELSE ((len + boundary - 1) \div boundary) * boundary

get_basic_alignment(type) ==
    CASE type \in {98, 121} -> 1
      [] type \in {110, 113} -> 2
      [] type \in {105, 117} -> 4
      [] type \in {120, 116, 100} -> 8
      [] type \in {115, 103, 111} -> 1
      [] type = 104 -> 4
      [] type = 118 -> 8
      [] OTHER -> 0

get_basic_fixed_size(type) ==
    CASE type \in {98, 121} -> 1
      [] type \in {110, 113} -> 2
      [] type \in {105, 117} -> 4
      [] type \in {120, 116, 100} -> 8
      [] type = 104 -> 4
      [] OTHER -> 0

\* ------------------------------------------------------ signature walker
\* Memory that is not the caller's reads as garbage g: the bytes of g,
\* repeated. GarbageAt is the byte at distance j >= 1 from the caller's
\* memory.
GarbageAt(g, j) == g[((j - 1) % Len(g)) + 1]

\* A C string held in a local buffer: s is its content, the terminator sits
\* at Len(s) + 1 and whatever lies behind the terminator reads as garbage.
CharAt(s, i, g) ==
    IF i <= Len(s) THEN s[i]
    ELSE IF i = Len(s) + 1 THEN 0
    ELSE GarbageAt(g, i - Len(s))

\* sig[n] = '\0' on the local buffer that holds s: the first n characters
Prefix(s, n, g) == [k \in 1..n |-> CharAt(s, k, g)]

\* The NULL return of validate_next_type (p = 0: indices start at 1).
NullType == [p |-> 0, alignment |-> 0]

RECURSIVE validate_next_type(_, _, _)
RECURSIVE validate_struct_loop(_, _, _, _)
\* while (sig && *sig != ')') of the '(' case; max is max_alignment
validate_struct_loop(s, i, max, g) ==
    IF CharAt(s, i, g) = CH_rparen
    THEN [p |-> i + 1, alignment |-> max]
    ELSE LET r == validate_next_type(s, i, g)
         IN IF r.p = 0 THEN NullType
            ELSE validate_struct_loop(s, r.p,
                     IF r.alignment > max THEN r.alignment ELSE max, g)

validate_next_type(s, i, g) ==
    LET c == CharAt(s, i, g)
    IN IF c = 0 THEN NullType
       ELSE IF c \in simple_types \/ c = CH_v
       THEN [p |-> i + 1, alignment |-> get_basic_alignment(c)]
       ELSE IF c = CH_a THEN validate_next_type(s, i + 1, g)
       ELSE IF c = CH_lbrace
       THEN LET k == CharAt(s, i + 1, g)
            IN \* strchr(simple_types, k) also matches the terminator
               IF ~(k \in simple_types \/ k = 0) THEN NullType
               ELSE LET r == validate_next_type(s, i + 2, g)
                    IN IF r.p = 0 THEN NullType
                       ELSE IF CharAt(s, r.p, g) # CH_rbrace THEN NullType
                       ELSE [p |-> r.p + 1,
                             alignment |->
                                 IF get_basic_alignment(k) > r.alignment
                                 THEN get_basic_alignment(k)
                                 ELSE r.alignment]
       ELSE IF c = CH_lparen THEN validate_struct_loop(s, i + 1, 1, g)
       ELSE NullType

RECURSIVE valid_signature_loop(_, _, _)
valid_signature_loop(s, i, g) ==
    LET r == validate_next_type(s, i, g)
    IN IF r.p = 0 THEN FALSE
       ELSE IF CharAt(s, r.p, g) # 0 THEN valid_signature_loop(s, r.p, g)
       ELSE TRUE

_gvariant_valid_signature(s, g) == valid_signature_loop(s, 1, g)

RECURSIVE num_children_loop(_, _, _, _)
num_children_loop(s, i, n, g) ==
    LET r == validate_next_type(s, i, g)
    IN IF r.p = 0 THEN -1
       ELSE IF CharAt(s, r.p, g) # 0 THEN num_children_loop(s, r.p, n + 1, g)
       ELSE n + 1

\* the count started one too low
_gvariant_num_children_low(s, g) == num_children_loop(s, 1, 0 - 1, g)

\* int num_children = 0; do { ... num_children += 1; } while (*s);
_gvariant_num_children(s, g) == num_children_loop(s, 1, 0, g)

RECURSIVE get_alignment_loop(_, _, _, _)
get_alignment_loop(s, i, max, g) ==
    IF CharAt(s, i, g) = 0 \/ max = 8 THEN max
    ELSE LET r == validate_next_type(s, i, g)
         IN IF r.p = 0 THEN 0
            ELSE get_alignment_loop(s, r.p,
                     IF r.alignment > max THEN r.alignment ELSE max, g)

_gvariant_get_alignment(s, g) == get_alignment_loop(s, 1, 1, g)

_gvariant_is_fixed_size(s) ==
    \A k \in 1..Len(s) : s[k] \notin variable_types

RECURSIVE get_fixed_size_loop(_, _, _, _, _)
\* the while (*s) loop of _gvariant_get_fixed_size, entered at index i with
\* the running size and max_alignment
get_fixed_size_loop(s, i, size, max, g) ==
    LET c == CharAt(s, i, g)
    IN IF c = 0 THEN align_len(size, max)
       ELSE IF c \in variable_types THEN 0
       ELSE IF c \in fixed_types
       THEN LET al == get_basic_alignment(c)
            IN get_fixed_size_loop(s, i + 1,
                   align_len(size, al) + get_basic_fixed_size(c),
                   IF al > max THEN al ELSE max, g)
       ELSE IF c = CH_rbrace \/ c = CH_rparen THEN align_len(size, max)
       ELSE LET p == validate_next_type(s, i, g)
            IN IF p.p = 0 THEN 0
               ELSE LET r == IF c = CH_lparen /\ CharAt(s, i + 1, g) = CH_rparen
                             THEN 1
                             ELSE get_fixed_size_loop(s, i + 1, 0, 1, g)
                    IN IF r = 0 THEN 0
                       ELSE get_fixed_size_loop(s, p.p,
                                align_len(size, p.alignment) + r,
                                IF p.alignment > max THEN p.alignment ELSE max,
                                g)

\* max_alignment started at the largest alignment
_gvariant_get_fixed_size_max8(s, g) == get_fixed_size_loop(s, 1, 0, 8, g)

\* int size = 0; int max_alignment = 1; while (*s) ...
_gvariant_get_fixed_size(s, g) == get_fixed_size_loop(s, 1, 0, 1, g)

\* the comparisons with < in place of <=
offset_length_lt(size, n_offsets) ==
    IF ULt(size + n_offsets, 255) THEN 1
    ELSE IF ULt(size + n_offsets * 2, 65535) THEN 2
    ELSE IF size + n_offsets * 4 >= 0 THEN 4
    ELSE 8

\* The sizes of the model are below 2^31 or, if negative, above 2^63: the
\* comparison with 0xffffffff is the test of the sign.
offset_length(size, n_offsets) ==
    IF ULe(size + n_offsets, 255) THEN 1
    ELSE IF ULe(size + n_offsets * 2, 65535) THEN 2
    ELSE IF size + n_offsets * 4 >= 0 THEN 4
    ELSE 8

\* ------------------------------------------------------------------ state
VARIABLES
    signature,  \* the caller's signature string (without its terminator)
    frame,      \* the caller's data frame
    iter,       \* the struct l_dbus_message_iter the caller works on
    last        \* what the last call did (its return value and its reads)

vars == <<signature, frame, iter, last>>

\* ---------------------------------------------------------------- memory
NULL == [seg |-> "null", off |-> 0]
SigPtr(o) == [seg |-> "sig", off |-> o]
DataPtr(o) == [seg |-> "data", off |-> o]
PtrAdd(p, n) == [seg |-> p.seg, off |-> p.off + n]

\* The byte at p. Behind the terminator of the signature and outside the
\* frame the memory is not the caller's: such a byte reads as g.
Peek(p, g) ==
    IF p.seg = "data"
    THEN IF p.off < 0 THEN GarbageAt(g, 0 - p.off)
         ELSE IF p.off < Len(frame) THEN frame[p.off + 1]
         ELSE GarbageAt(g, p.off - Len(frame) + 1)
    ELSE IF p.seg = "sig"
    THEN IF p.off < 0 THEN GarbageAt(g, 0 - p.off)
         ELSE IF p.off < Len(signature) THEN signature[p.off + 1]
         ELSE IF p.off = Len(signature) THEN 0
         ELSE GarbageAt(g, p.off - Len(signature) + 1)
    ELSE GarbageAt(g, 1)

\* The frame offsets touched by a read of n bytes at p.
Touched(p, n) ==
    IF p.seg = "data" THEN {p.off + k : k \in 0..(n - 1)} ELSE {}

read_word_le(p, sz, g) ==
    LET b(k) == Peek(PtrAdd(p, k), g)
    IN IF sz = 1 THEN b(0)
       ELSE IF sz = 2 THEN b(0) + 256 * b(1)
       ELSE IF \E k \in 3..(sz - 1) : b(k) # 0 THEN BigWord
       ELSE b(0) + 256 * b(1) + 65536 * b(2)

\* memcpy(dst, p, n) followed by dst[n] = '\0', read back as a C string
CopyBytes(p, n, g) == [k \in 1..n |-> Peek(PtrAdd(p, k - 1), g)]

\* strlen of the bytes of s from index i on: the bytes in front of the first 0
strlen_from(s, i) ==
    IF \E k \in i..Len(s) : s[k] = 0
    THEN (CHOOSE k \in i..Len(s) :
              s[k] = 0 /\ \A j \in i..(k - 1) : s[j] # 0) - 1
    ELSE Len(s)

CString(s) == SubSeq(s, 1, strlen_from(s, 1))

\* ---------------------------------------------------------------- reader
\* char signature[255]: the local buffer of _gvariant_iter_enter_variant
SignatureSize == 255

ContainerTypes == {"STRUCT", "DICT_ENTRY", "ARRAY", "VARIANT"}

\* an l_dbus_message_iter nobody has initialised
NoIter ==
    [sig_start |-> NULL, sig_len |-> 0, sig_pos |-> 0, data |-> NULL,
     len |-> 0, pos |-> 0, container_type |-> "UNSET", offsets |-> NULL]

\* The memory at p as a signature walk sees it: the rest of p's segment
\* (with the terminator of the caller's signature) and garbage behind it.
MemoryAt(p, g) ==
    CopyBytes(p,
              (IF p.seg = "sig" THEN Len(signature) + 1 ELSE Len(frame))
                  - p.off + 8,
              g)

\* The per-child descriptors of gvariant_iter_init_internal, first loop:
\* struct gvariant_type_info for the complete type starting at index i of
\* mem, the memory at sig_start, with n iterations to go. The walk is over
\* sig_start itself, not over the copy subsig. It ends early where
\* validate_next_type returns NULL.
RECURSIVE init_children(_, _, _, _)
init_children(mem, i, n, g) ==
    IF n = 0 THEN <<>>
    ELSE LET r == validate_next_type(mem, i, g)
             child == SubSeq(Prefix(mem, r.p - 1, g), i, r.p - 1)
             fixed == _gvariant_is_fixed_size(CString(child))
         IN IF r.p = 0 THEN <<>>
            ELSE <<[sig_start |-> i - 1, sig_end |-> r.p - 1,
                    alignment |-> r.alignment, fixed_size |-> fixed,
                    end |-> IF fixed THEN _gvariant_get_fixed_size(child, g)
                            ELSE 0]>>
                 \o init_children(mem, r.p, n - 1, g)

\* number of variable-size children that are not the last child
init_num_variable(children) ==
    Cardinality({i \in 1..Len(children) :
                    ~children[i].fixed_size /\ i < Len(children)})

\* the address of an offset word, v counted before its increment
init_offset_addr_early(data, len, offset_len, v) ==
    PtrAdd(data, len - offset_len * (v - 1))

\* data + len - offset_len * v: the word that ends the v-th variable-size
\* child that is not the last child
init_offset_addr(data, len, offset_len, v) ==
    PtrAdd(data, len - offset_len * v)

\* The second loop of gvariant_iter_init_internal from child i (1-based) on:
\* v offset words are consumed so far, num_variable are still to come and
\* prev_end is children[i-1].end. reads lists the words read, in order.
RECURSIVE init_layout(_, _, _, _, _, _, _, _, _)
init_layout(children, i, v, num_variable, prev_end, data, len, reads, g) ==
    LET offset_len == offset_length(len, 0)
        last_offset == len - init_num_variable(children) * offset_len
    IN IF i > Len(children) THEN [ok |-> TRUE, reads |-> reads]
       ELSE IF children[i].fixed_size
       THEN IF i = 1
            THEN init_layout(children, i + 1, v, num_variable,
                             children[i].end, data, len, reads, g)
            ELSE LET end == children[i].end
                            + align_len(prev_end, children[i].alignment)
                 IN IF UGt(end, len) THEN [ok |-> FALSE, reads |-> reads]
                    ELSE init_layout(children, i + 1, v, num_variable, end,
                                     data, len, reads, g)
       ELSE IF num_variable = 0
       THEN init_layout(children, i + 1, v, num_variable, last_offset,
                        data, len, reads, g)
       ELSE LET addr == init_offset_addr(data, len, offset_len, v + 1)
                end == read_word_le(addr, offset_len, g)
                rd == Append(reads, [addr |-> addr, word |-> end,
                                     child |-> i])
            IN IF UGt(end, len) THEN [ok |-> FALSE, reads |-> rd]
               ELSE init_layout(children, i + 1, v + 1, num_variable - 1,
                                end, data, len, rd, g)

\* gvariant_iter_init_internal. The result carries the initialised iter, ok
\* (the return value), crash (n_children is (uint8_t) -1 and the first loop
\* runs validate_next_type off a NULL pointer) and words: the offset words
\* read, in order, each with its address, its value and the child it ends
\* (0 for the table-start word of an array).
\*
\* The tail of the function: the array's table-start word, the container
\* type and the return. it1 is the iter after the field assignments, layout
\* the outcome of the second loop.
init_result(type, it1, children, layout, g) ==
    LET offset_len == offset_length(it1.len, 0)
        table == PtrAdd(it1.data, it1.len - offset_len)
        offset == read_word_le(table, offset_len, g)
    IN IF ~layout.ok
       THEN [ok |-> FALSE, crash |-> FALSE, iter |-> it1,
             words |-> layout.reads]
       ELSE IF type = "ARRAY" /\ ~children[1].fixed_size
       THEN [ok |-> TRUE, crash |-> FALSE,
             iter |-> [it1 EXCEPT !.container_type = type,
                                  !.offsets = PtrAdd(it1.data, offset)],
             words |-> Append(layout.reads,
                              [addr |-> table, word |-> offset, child |-> 0])]
       ELSE [ok |-> TRUE, crash |-> FALSE,
             iter |-> [it1 EXCEPT !.container_type = type],
             words |-> layout.reads]

\* From the end of the first loop on: children are its descriptors, it0 the
\* iter with the fields assigned so far. Where validate_next_type returned
\* NULL inside the first loop, the loop went on with that NULL (crash).
init_with_children(type, it0, n_children, children, g) ==
    LET offset_len == offset_length(it0.len, 0)
        num_variable == init_num_variable(children)
        it1 == [it0 EXCEPT !.offsets =
                   IF num_variable > 0
                   THEN PtrAdd(it0.data, it0.len - offset_len)
                   ELSE NULL]
    IN IF Len(children) < n_children
       THEN [ok |-> FALSE, crash |-> TRUE, iter |-> it0, words |-> <<>>]
       ELSE IF ULt(it0.len, num_variable * offset_len)
       THEN [ok |-> FALSE, crash |-> FALSE, iter |-> it0, words |-> <<>>]
       ELSE init_result(type, it1, children,
                        init_layout(children, 1, 0, num_variable, 0,
                                    it0.data, it0.len, <<>>, g), g)

\* From the copy of the signature on: subsig is the local copy.
init_with_subsig(type, sig_start, data, len, subsig, g) ==
    LET it0 == [sig_start |-> sig_start, sig_len |-> Len(subsig),
                sig_pos |-> 0, data |-> data, len |-> len, pos |-> 0,
                container_type |-> "UNSET", offsets |-> NULL]
    IN IF _gvariant_num_children(subsig, g) = -1
       THEN [ok |-> FALSE, crash |-> TRUE, iter |-> it0, words |-> <<>>]
       ELSE init_with_children(type, it0, _gvariant_num_children(subsig, g),
                               init_children(MemoryAt(sig_start, g), 1,
                                   _gvariant_num_children(subsig, g), g),
                               g)

gvariant_iter_init_internal(type, sig_start, sig_end, data, len, g) ==
    init_with_subsig(type, sig_start, data, len,
                     CString(CopyBytes(sig_start,
                                       IF sig_end = NULL THEN Len(signature)
                                       ELSE sig_end.off - sig_start.off, g)),
                     g)

\* The frame offsets read by the offset-word reads of an initialisation.
WordsTouched(words, offset_len) ==
    UNION {Touched(words[k].addr, offset_len) : k \in 1..Len(words)}

\* pointer comparison p >= q inside one segment (flat addresses)
PtrGe(p, q) == p.off >= q.off

\* the end check with > in place of >=
item_past_end_strict(it, start) ==
    start.off > PtrAdd(it.data, it.len).off

\* if (start >= iter->data + iter->len) return NULL;
item_past_end(it, start) == PtrGe(start, PtrAdd(it.data, it.len))

\* the offsets pointer moving backwards for every container type
next_offsets_reverse(it, offset_len) == PtrAdd(it.offsets, 0 - offset_len)

\* In structures the offsets are in reverse order: the offsets pointer after
\* a word of offset_len bytes is read.
next_offsets(it, offset_len) ==
    IF it.container_type = "ARRAY"
    THEN PtrAdd(it.offsets, offset_len)
    ELSE PtrAdd(it.offsets, 0 - offset_len)

\* next_item. The result carries ok (start is not NULL), the iter as the
\* call leaves it, start and size (*out_item_size), and word: the offset
\* word the call read, if it read one.
NoWord == [read |-> FALSE, addr |-> NULL, word |-> 0]

\* From the type lookup on: sig is the local copy of the rest of the
\* signature and p what validate_next_type returns for it.
next_item_of_type(it, sig, p, g) ==
    LET sig_len == p.p - 1
        last_member == CharAt(sig, p.p, g) = 0
        fixed_size == _gvariant_is_fixed_size(CString(Prefix(sig, sig_len, g)))
        it1 == [it EXCEPT
                  !.sig_pos = IF it.container_type # "ARRAY"
                              THEN it.sig_pos + sig_len ELSE it.sig_pos,
                  !.pos = align_len(it.pos, p.alignment)]
        offset_len == offset_length(it.len, 0)
        word == read_word_le(it.offsets, offset_len, g)
        it2 == [it1 EXCEPT !.offsets = next_offsets(it, offset_len)]
        done(itd, size, w) ==
            LET start == PtrAdd(itd.data, itd.pos)
            IN IF item_past_end(itd, start)
               THEN [ok |-> FALSE, iter |-> itd, start |-> NULL,
                     size |-> size, word |-> w]
               ELSE [ok |-> TRUE, iter |-> [itd EXCEPT !.pos = itd.pos + size],
                     start |-> start, size |-> size, word |-> w]
    IN IF p.p = 0
       THEN [ok |-> FALSE, iter |-> it, start |-> NULL, size |-> 0,
             word |-> NoWord]
       ELSE IF fixed_size
       THEN done(it1, _gvariant_get_fixed_size(Prefix(sig, sig_len, g), g),
                 NoWord)
       ELSE IF it.container_type # "ARRAY" /\ last_member
       THEN done(it1, it1.len - it1.pos, NoWord)
       ELSE IF PtrGe(it1.offsets, PtrAdd(it1.data, it1.len))
       THEN [ok |-> FALSE, iter |-> it1, start |-> NULL, size |-> 0,
             word |-> NoWord]
       ELSE done(it2, word - it1.pos,
                 [read |-> TRUE, addr |-> it.offsets, word |-> word])

\* From the copy of the signature on.
next_item_of_sig(it, sig, g) ==
    next_item_of_type(it, sig, validate_next_type(sig, 1, g), g)

next_item(it, g) ==
    next_item_of_sig(it, CopyBytes(PtrAdd(it.sig_start, it.sig_pos),
                                   it.sig_len - it.sig_pos, g), g)

\* ------------------------------------------------------ byte searches
SetMin(S) == CHOOSE x \in S : \A y \in S : x <= y
SetMax(S) == CHOOSE x \in S : \A y \in S : x >= y

\* The offsets of the frame inside the n bytes at p; a wrapped n reaches
\* to the end of the frame.
InFrame(p, n) ==
    {k \in 0..(Len(frame) - 1) : k >= p.off /\ (n < 0 \/ k < p.off + n)}

\* whether the n bytes at p reach behind the end of the frame
PastFrame(p, n) == n # 0 /\ (n < 0 \/ p.off + n > Len(frame))

\* the first offset behind the frame that a scan of the bytes at p touches
FirstPast(p) == IF p.off > Len(frame) THEN p.off ELSE Len(frame)

\* The offsets behind the frame, out of the candidates ks, that a scan of
\* the n bytes at p touches and that read as 0.
PastZeros(p, n, ks, g) ==
    {k \in ks : /\ k >= FirstPast(p)
                /\ (n < 0 \/ k < p.off + n)
                /\ Peek([seg |-> "data", off |-> k], g) = 0}

\* a search that reports the first byte whatever it is
memchr0_first(p, n, g) == [found |-> TRUE, at |-> p.off, reads |-> {p.off}]

\* memchr(p, 0, n): found, the offset of the NUL, and the offsets read (all
\* those inside the frame, and the first one behind it if the scan gets
\* there).
memchr0(p, n, g) ==
    LET in == InFrame(p, n)
        zeros == {k \in in : frame[k + 1] = 0}
        past == PastZeros(p, n, FirstPast(p)..(FirstPast(p) + Len(g) - 1), g)
    IN IF zeros # {}
       THEN [found |-> TRUE, at |-> SetMin(zeros),
             reads |-> {k \in in : k <= SetMin(zeros)}]
       ELSE IF PastFrame(p, n)
       THEN [found |-> past # {},
             at |-> IF past # {} THEN SetMin(past) ELSE FirstPast(p),
             reads |-> in \cup {FirstPast(p)}]
       ELSE [found |-> FALSE, at |-> 0, reads |-> in]

\* memrchr(p, 0, n) for end = p + n: the scan runs from end - 1 downwards.
\* With a wrapped n the address end lies below p and the scan runs on below
\* end (flat addresses).
memrchr0(p, n, g) ==
    LET end == p.off + n
        in == IF n < 0 THEN {k \in 0..(Len(frame) - 1) : k < end}
              ELSE InFrame(p, n)
        zeros == {k \in in : frame[k + 1] = 0}
        above == n >= 0 /\ PastFrame(p, n)
        past == PastZeros(p, n, (end - Len(g))..(end - 1), g)
        below == IF end - 1 < 0 THEN end - 1 ELSE 0 - 1
    IN IF above /\ past # {}
       THEN [found |-> TRUE, at |-> SetMax(past), reads |-> {end - 1}]
       ELSE IF zeros # {}
       THEN [found |-> TRUE, at |-> SetMax(zeros),
             reads |-> {k \in in : k >= SetMax(zeros)}
                       \cup (IF above THEN {end - 1} ELSE {})]
       ELSE IF n < 0
       THEN [found |-> Peek([seg |-> "data", off |-> below], g) = 0,
             at |-> below, reads |-> in \cup {0 - 1}]
       ELSE [found |-> FALSE, at |-> 0,
             reads |-> in \cup (IF above THEN {end - 1} ELSE {})]

\* ---------------------------------------------------------- entry points
\* What a call reports: ret is the return value; iter the reader it was
\* called on, as the call leaves it; child the reader it initialised (the
\* enter_* calls); item the result of its next_item call; words the offset
\* words gvariant_iter_init_internal read; reads the frame offsets the call
\* read (relative to the caller's frame); out the string pointer stored.
NoItem == [ok |-> FALSE, start |-> NULL, size |-> 0, word |-> NoWord,
           called |-> FALSE]
Item(ni) == [ok |-> ni.ok, start |-> ni.start, size |-> ni.size,
             word |-> ni.word, called |-> TRUE]
ItemReads(it, ni) ==
    IF ni.word.read THEN Touched(ni.word.addr, offset_length(it.len, 0))
    ELSE {}

Result(ret, it, item, reads) ==
    [ret |-> ret, crash |-> FALSE, iter |-> it, child |-> NoIter,
     item |-> item, words |-> <<>>, reads |-> reads, out |-> NULL,
     term |-> -1]

string_types == {111, 115, 103}

\* the type compared with the first character of the window
type_mismatch_first(it, type, g) == Peek(it.sig_start, g) # type

\* iter->sig_start[iter->sig_pos] != type
type_mismatch(it, type, g) == Peek(PtrAdd(it.sig_start, it.sig_pos), g) # type

\* The part of next_entry_basic behind its next_item call, whose result is
\* ni.
next_entry_basic_item(it, type, ni, g) ==
    LET m == memchr0(ni.start, ni.size, g)
    IN IF ~ni.ok
       THEN Result(FALSE, ni.iter, Item(ni), ItemReads(it, ni))
       ELSE IF type \in string_types
       THEN IF ~m.found
            THEN Result(FALSE, ni.iter, Item(ni),
                        ItemReads(it, ni) \cup m.reads)
            ELSE [Result(TRUE, ni.iter, Item(ni),
                         ItemReads(it, ni) \cup m.reads)
                  EXCEPT !.out = ni.start]
       ELSE Result(TRUE, ni.iter, Item(ni),
                   ItemReads(it, ni)
                   \cup Touched(ni.start, get_basic_fixed_size(type)))

_gvariant_iter_next_entry_basic(it, type, g) ==
    IF UGe(it.pos, it.len) THEN Result(FALSE, it, NoItem, {})
    ELSE IF type_mismatch(it, type, g)
    THEN Result(FALSE, it, NoItem, {})
    ELSE next_entry_basic_item(it, type, next_item(it, g), g)

\* What an enter_* call reports once gvariant_iter_init_internal has
\* returned r for the child.
ChildResult(ni, r, len, reads) ==
    [ret |-> r.ok, crash |-> r.crash, iter |-> ni.iter, child |-> r.iter,
     item |-> Item(ni), words |-> r.words,
     reads |-> reads \cup WordsTouched(r.words, offset_length(len, 0)),
     out |-> NULL, term |-> -1]

\* the part of the enter_* calls behind next_item: the child initialisation
EnterChild(it, ni, type, sig_start, sig_end, start, len, reads, g) ==
    ChildResult(ni,
                gvariant_iter_init_internal(type, sig_start, sig_end, start,
                                            len, g),
                len, reads)

\* The part of enter_struct behind its next_item call, whose result is ni.
enter_struct_item(it, is_dict, ni, g) ==
    LET sig_start == PtrAdd(it.sig_start, it.sig_pos + 1)
        sig_end == IF ni.iter.container_type = "ARRAY"
                   THEN PtrAdd(ni.iter.sig_start, ni.iter.sig_len - 1)
                   ELSE PtrAdd(ni.iter.sig_start, ni.iter.sig_pos - 1)
    IN IF ~ni.ok
       THEN Result(FALSE, ni.iter, Item(ni), ItemReads(it, ni))
       ELSE EnterChild(it, ni, IF is_dict THEN "DICT_ENTRY" ELSE "STRUCT",
                       sig_start, sig_end, ni.start, ni.size,
                       ItemReads(it, ni), g)

_gvariant_iter_enter_struct(it, g) ==
    LET c == Peek(PtrAdd(it.sig_start, it.sig_pos), g)
        is_dict == c = CH_lbrace
        is_struct == c = CH_lparen
    IN IF ~is_dict /\ ~is_struct THEN Result(FALSE, it, NoItem, {})
       ELSE enter_struct_item(it, is_dict, next_item(it, g), g)

\* The part of enter_variant behind the write of the terminator: sig is the
\* content of the local buffer, n the index the terminator was written at and
\* rd the frame offsets read so far.
enter_variant_checked(it, ni, nul, n, sig, rd, g) ==
    IF ~_gvariant_valid_signature(sig, g)
    THEN [Result(FALSE, ni.iter, Item(ni), rd) EXCEPT !.term = n]
    ELSE IF _gvariant_num_children(sig, g) # 1
    THEN [Result(FALSE, ni.iter, Item(ni), rd) EXCEPT !.term = n]
    ELSE [EnterChild(it, ni, "VARIANT", DataPtr(nul.at + 1),
                     PtrAdd(ni.start, ni.size), ni.start,
                     nul.at - ni.start.off, rd, g)
          EXCEPT !.term = n]

\* The part of enter_variant behind its memrchr call: nul is what the search
\* for the NUL in front of the variant's signature returns. term is the
\* index of signature[] the terminator is written at (-1: nothing written).
\* A write at an index that is no index of the buffer changes a byte of the
\* stack frame next to the buffer: where smash holds that byte is in use and
\* the call does not return, otherwise the call goes on.
enter_variant_sig(it, ni, nul, smash, g) ==
    LET end == PtrAdd(ni.start, ni.size)
        n == end.off - nul.at - 1
        rd == ItemReads(it, ni) \cup nul.reads
    IN IF ~nul.found THEN Result(FALSE, ni.iter, Item(ni), rd)
       ELSE IF n > 255 THEN Result(FALSE, ni.iter, Item(ni), rd)
       ELSE IF n >= SignatureSize /\ smash
       THEN [Result(FALSE, ni.iter, Item(ni),
                    rd \cup Touched(DataPtr(nul.at + 1), n))
             EXCEPT !.crash = TRUE, !.term = n]
       ELSE enter_variant_checked(it, ni, nul, n,
                CString(CopyBytes(DataPtr(nul.at + 1), n, g)),
                rd \cup Touched(DataPtr(nul.at + 1), n), g)

\* The part of enter_variant behind its next_item call, whose result is ni.
enter_variant_item(it, ni, smash, g) ==
    IF ~ni.ok
    THEN Result(FALSE, ni.iter, Item(ni), ItemReads(it, ni))
    ELSE enter_variant_sig(it, ni, memrchr0(ni.start, ni.size, g), smash, g)

_gvariant_iter_enter_variant(it, smash, g) ==
    IF type_mismatch(it, CH_v, g)
    THEN Result(FALSE, it, NoItem, {})
    ELSE enter_variant_item(it, next_item(it, g), smash, g)

\* the element window started at the 'a' itself
element_sig_start_at_a(it) == PtrAdd(it.sig_start, it.sig_pos)

\* sig_start = iter->sig_start + iter->sig_pos + 1;
element_sig_start(it) == PtrAdd(it.sig_start, it.sig_pos + 1)

\* The part of enter_array behind its next_item call, whose result is ni.
enter_array_item(it, ni, g) ==
    LET sig_start == element_sig_start(it)
        sig_end == IF ni.iter.container_type = "ARRAY"
                   THEN PtrAdd(ni.iter.sig_start, ni.iter.sig_len)
                   ELSE PtrAdd(ni.iter.sig_start, ni.iter.sig_pos)
    IN IF ~ni.ok
       THEN Result(FALSE, ni.iter, Item(ni), ItemReads(it, ni))
       ELSE EnterChild(it, ni, "ARRAY", sig_start, sig_end, ni.start,
                       ni.size, ItemReads(it, ni), g)

_gvariant_iter_enter_array(it, g) ==
    IF type_mismatch(it, CH_a, g)
    THEN Result(FALSE, it, NoItem, {})
    ELSE enter_array_item(it, next_item(it, g), g)

\* ---------------------------------------------------------------- inputs
\* The signatures the caller reads a frame with (the body signature handed
\* to _gvariant_iter_init).
Sigs ==
    { <<CH_i>>,                                   \* "i"
      <<CH_y, CH_n>>,                             \* "yn"
      <<CH_s>>,                                   \* "s"
      <<CH_s, CH_n>>,                             \* "sn"
      <<CH_s, CH_s>>,                             \* "ss"
      <<CH_s, CH_s, CH_s>>,                       \* "sss"
      <<CH_a, CH_n>>,                             \* "an"
      <<CH_a, CH_i>>,                             \* "ai"
      <<CH_a, CH_s>>,                             \* "as"
      <<CH_a, CH_s, CH_y>>,                       \* "asy"
      <<CH_a, CH_a, CH_y>>,                       \* "aay"
      <<CH_lparen, CH_s, CH_n, CH_rparen>>,       \* "(sn)"
      <<CH_lbrace, CH_y, CH_s, CH_rbrace>>,       \* "{ys}"
      <<CH_y, CH_a, CH_s>>,                       \* "yas"
      <<CH_v>>,                                   \* "v"
      <<CH_lparen, CH_rparen>>,                   \* "()"
      <<CH_lparen, CH_y, CH_rparen>>,             \* "(y)"
      <<CH_a, CH_lparen, CH_y, CH_rparen>> }      \* "a(y)"

\* The bytes a frame is made of: small numbers (terminators, offset words,
\* values) and, where the signature holds a variant, type characters.
FrameBytes(sig) ==
    IF \E k \in 1..Len(sig) : sig[k] = CH_v
    THEN {0, CH_y, CH_s, CH_lbrace}
    ELSE 0..MaxByte

\* The frames of the documented scenarios: "as" of ["a", "bb"], "ai" of
\* [1, 2, 3], and a variant with an empty value whose signature is as long
\* as enter_variant takes it.
ScenarioFrames(sig) ==
    IF sig = <<CH_a, CH_s>> THEN {<<97, 0, 98, 98, 0, 2, 5>>}
    ELSE IF sig = <<CH_v>>
    THEN {<<0>> \o [k \in 1..255 |-> CH_lbrace]}
    ELSE IF sig = <<CH_a, CH_i>>
    THEN {<<1, 0, 0, 0, 2, 0, 0, 0, 3, 0, 0, 0>>}
    ELSE {}

Frames(sig) ==
    UNION {[1..n -> FrameBytes(sig)] : n \in 0..MaxLen}
    \cup ScenarioFrames(sig)

\* What the memory outside the caller's memory may hold: terminators, a
\* small number, or type characters that end in a terminator.
Garbage == {<<0>>, <<1>>, <<CH_y, CH_y, CH_rbrace, 0>>}

\* The type characters the caller asks next_basic for: the basic types of
\* its signature, and 'y'.
BasicTypes ==
    {signature[k] : k \in {j \in 1..Len(signature) :
                              signature[j] \in simple_types}}
    \cup {CH_y}

NoCall ==
    [op |-> "none", type |-> 0, pre |-> NoIter, ret |-> FALSE,
     crash |-> FALSE, child |-> NoIter, item |-> NoItem, words |-> <<>>,
     reads |-> {}, out |-> NULL, term |-> -1]

Call(op, type, pre, r) ==
    [op |-> op, type |-> type, pre |-> pre, ret |-> r.ret,
     crash |-> r.crash, child |-> r.child, item |-> r.item,
     words |-> r.words, reads |-> r.reads, out |-> r.out, term |-> r.term]

\* ----------------------------------------------------------------- steps
Init ==
    /\ signature \in Sigs
    /\ frame \in Frames(signature)
    /\ iter = NoIter
    /\ last = NoCall

\* the reader is initialised and no call has crashed
Live == iter.container_type \in ContainerTypes /\ ~last.crash

\* _gvariant_iter_init: the reader over the whole frame
IterInit ==
    /\ last.op = "none"
    /\ \E g \in Garbage :
         LET r == gvariant_iter_init_internal("STRUCT", SigPtr(0), NULL,
                                              DataPtr(0), Len(frame), g)
         IN /\ iter' = r.iter
            /\ last' = [NoCall EXCEPT !.op = "init", !.ret = r.ok,
                                      !.crash = r.crash, !.words = r.words,
                                      !.reads = WordsTouched(r.words,
                                          offset_length(Len(frame), 0))]
    /\ UNCHANGED <<signature, frame>>

NextBasic ==
    /\ Live
    /\ \E type \in BasicTypes, g \in Garbage :
         LET r == _gvariant_iter_next_entry_basic(iter, type, g)
         IN /\ iter' = r.iter
            /\ last' = Call("next_basic", type, iter, r)
    /\ UNCHANGED <<signature, frame>>

EnterStruct ==
    /\ Live
    /\ \E g \in Garbage :
         LET r == _gvariant_iter_enter_struct(iter, g)
         IN /\ iter' = r.iter
            /\ last' = Call("enter_struct", 0, iter, r)
    /\ UNCHANGED <<signature, frame>>

EnterArray ==
    /\ Live
    /\ \E g \in Garbage :
         LET r == _gvariant_iter_enter_array(iter, g)
         IN /\ iter' = r.iter
            /\ last' = Call("enter_array", 0, iter, r)
    /\ UNCHANGED <<signature, frame>>

EnterVariant ==
    /\ Live
    /\ \E g \in Garbage, smash \in BOOLEAN :
         LET r == _gvariant_iter_enter_variant(iter, smash, g)
         IN /\ iter' = r.iter
            /\ last' = Call("enter_variant", 0, iter, r)
    /\ UNCHANGED <<signature, frame>>

\* The caller goes on with the child reader the last enter_* call returned.
\* A child reader whose length is wrapped or exceeds the caller's frame is
\* not followed.
Descend ==
    /\ Live
    /\ last.op \in {"enter_struct", "enter_array", "enter_variant"}
    /\ last.ret
    /\ last.child.len \in 0..Len(frame)
    /\ iter' = last.child
    /\ last' = [NoCall EXCEPT !.op = "descend", !.pre = iter, !.ret = TRUE]
    /\ UNCHANGED <<signature, frame>>

Next ==
    \/ IterInit
    \/ NextBasic
    \/ EnterStruct
    \/ EnterArray
    \/ EnterVariant
    \/ Descend

Spec == Init /\ [][Next]_vars

\* ------------------------------------------------- the signature functions
\* The signature functions applied to a char pointer: signature is the
\* memory at the pointer. The C string ends at its first 0 byte; what follows
\* that byte in signature is the memory behind the terminator, and the
\* memory behind signature reads as 0 first and then as g.
SigBytes ==
    {0, CH_y, CH_x, CH_a, CH_lparen, CH_rparen, CH_lbrace, CH_rbrace}

SigMemory == UNION {[1..n -> SigBytes] : n \in 0..MaxSigLen}

SigResult(op, g, value) == [op |-> op, g |-> g, value |-> value]

SigOps ==
    {"valid_signature", "num_children", "get_alignment", "is_fixed_size",
     "get_fixed_size"}

SigInit ==
    /\ signature \in SigMemory
    /\ frame = <<>>
    /\ iter = NoIter
    /\ last = NoCall

ValidSignature ==
    /\ \E g \in Garbage :
         last' = SigResult("valid_signature", g,
                           _gvariant_valid_signature(signature, g))
    /\ UNCHANGED <<signature, frame, iter>>

NumChildren ==
    /\ \E g \in Garbage :
         last' = SigResult("num_children", g,
                           _gvariant_num_children(signature, g))
    /\ UNCHANGED <<signature, frame, iter>>

GetAlignment ==
    /\ \E g \in Garbage :
         last' = SigResult("get_alignment", g,
                           _gvariant_get_alignment(signature, g))
    /\ UNCHANGED <<signature, frame, iter>>

IsFixedSize ==
    /\ \E g \in Garbage :
         last' = SigResult("is_fixed_size", g,
                           _gvariant_is_fixed_size(CString(signature)))
    /\ UNCHANGED <<signature, frame, iter>>

GetFixedSize ==
    /\ \E g \in Garbage :
         last' = SigResult("get_fixed_size", g,
                           _gvariant_get_fixed_size(signature, g))
    /\ UNCHANGED <<signature, frame, iter>>

SigNext ==
    \/ ValidSignature
    \/ NumChildren
    \/ GetAlignment
    \/ IsFixedSize
    \/ GetFixedSize

SigSpec == SigInit /\ [][SigNext]_vars

\* ----------------------------------------------- the offset-word width
\* The width of the offset words of a reader over a frame of length len, as
\* gvariant_iter_init_internal and next_item compute it. The lengths are
\* those around the thresholds; a negative length is a size_t above 2^63.
WidthLengths ==
    {b + d : b \in {0, 255, 65535, BigWord},
             d \in (0 - WidthSpan)..WidthSpan}

WidthInit ==
    /\ signature \in {<<CH_a, CH_s>>, <<CH_s, CH_s>>}
    /\ frame = <<>>
    /\ iter \in {[NoIter EXCEPT !.len = l] : l \in WidthLengths}
    /\ last = NoCall

\* unsigned int offset_len = offset_length(len, 0);
InitWidth ==
    /\ last' = [op |-> "init_width", value |-> offset_length(iter.len, 0)]
    /\ UNCHANGED <<signature, frame, iter>>

\* offset_len = offset_length(iter->len, 0);
ItemWidth ==
    /\ last' = [op |-> "item_width", value |-> offset_length(iter.len, 0)]
    /\ UNCHANGED <<signature, frame, iter>>

WidthNext ==
    \/ InitWidth
    \/ ItemWidth

WidthSpec == WidthInit /\ [][WidthNext]_vars

\* ------------------------------------------------------------ properties
Calls == {"next_basic", "enter_struct", "enter_array", "enter_variant"}

\* the last step was a call of a reader operation on last.pre
IsCall == last.op \in Calls

Cursors(it) == <<it.sig_pos, it.pos, it.offsets>>

\* the signature window of a reader, as its C string
WindowOf(it) == CString(CopyBytes(it.sig_start, it.sig_len, <<0>>))

\* the frame of a reader, as offsets of the caller's frame
FrameEnd(it) == it.data.off + it.len

\* C1: every reader operation that returns false leaves sig_pos, pos and
\* offsets of the reader it was called on as they were before the call.
C1_FailedCallLeavesReaderUnchanged ==
    (IsCall /\ ~last.ret) => Cursors(iter) = Cursors(last.pre)

\* C2: no operation reads a data byte at or behind the end of the frame of
\* the reader it is called on, and next_basic does not return true for a
\* fixed-size child whose bytes extend past the end of that frame.
C2_TruncationIsCaught ==
    IsCall =>
        /\ \A k \in last.reads : k < FrameEnd(last.pre)
        /\ (last.op = "next_basic" /\ last.ret
                /\ last.type \notin string_types)
           => last.item.start.off + last.item.size <= FrameEnd(last.pre)

\* C3: the cursors of a reader stay in range, 0 <= pos <= len and
\* 0 <= sig_pos <= sig_len, after any sequence of calls.
C3_CursorsInRange ==
    Live => /\ iter.pos >= 0
            /\ ULe(iter.pos, iter.len)
            /\ iter.sig_pos >= 0
            /\ iter.sig_pos <= iter.sig_len

\* a reader is terminal: pos >= len, or sig_pos == sig_len outside an array
Terminal(it) ==
    \/ UGe(it.pos, it.len)
    \/ (it.container_type # "ARRAY" /\ it.sig_pos = it.sig_len)

\* C4: every call on a terminal reader returns false and leaves the reader
\* terminal.
C4_TerminalReaderStaysTerminal ==
    (IsCall /\ Terminal(last.pre)) => (~last.ret /\ Terminal(iter))

\* an enter_array call on a terminal reader that got as far as next_item
C4_Witness ==
    /\ last.op = "enter_array"
    /\ Terminal(last.pre)
    /\ last.pre.pos > 0
    /\ last.item.called

StructLike(it) == it.container_type \in {"STRUCT", "DICT_ENTRY"}

ChildrenOf(it) ==
    init_children(WindowOf(it), 1,
                  _gvariant_num_children(WindowOf(it), <<0>>), <<0>>)

\* C5: in a struct or dict-entry frame with k >= 1 variable-size non-last
\* children, the extent next_item yields for a variable-size last child ends
\* at the start of the offset table, len - k * W.
C5_LastVariableChildEndsAtOffsetTable ==
    LET pre == last.pre
        ch == ChildrenOf(pre)
        k == init_num_variable(ch)
        W == offset_length(pre.len, 0)
    IN (/\ IsCall
        /\ StructLike(pre)
        /\ last.item.ok
        /\ k >= 1
        /\ iter.sig_pos = pre.sig_len
        /\ ~ch[Len(ch)].fixed_size)
       => last.item.start.off + last.item.size = FrameEnd(pre) - k * W

\* C6: an array reader over fixed-size elements of stride S and length L
\* yields floor(L / S) elements: the extraction at offset i * S succeeds
\* exactly when i < floor(L / S).
C6_FixedArrayYieldsFloorCount ==
    LET pre == last.pre
        elem == WindowOf(pre)
        S == _gvariant_get_fixed_size(elem, <<0>>)
    IN (/\ last.op = "next_basic"
        /\ pre.container_type = "ARRAY"
        /\ _gvariant_is_fixed_size(elem)
        /\ elem = <<last.type>>)
       => /\ last.ret <=> (pre.pos \div S) < (pre.len \div S)
          /\ last.ret => /\ pre.pos % S = 0
                         /\ last.item.start = PtrAdd(pre.data, pre.pos)

\* an array reader over variable-size elements
ArrayVar(it) ==
    it.container_type = "ARRAY" /\ ~_gvariant_is_fixed_size(WindowOf(it))

\* the frame of a reader lies inside the caller's frame and is not empty
InBuffer(it) ==
    it.data.seg = "data" /\ it.data.off >= 0 /\ it.len >= 1
        /\ FrameEnd(it) <= Len(frame)

\* T: the word at data + L - W of the frame of a reader
TableStart(it) ==
    read_word_le(PtrAdd(it.data, it.len - offset_length(it.len, 0)),
                 offset_length(it.len, 0), <<0>>)

\* C7: an array reader over variable-size elements has its offset table at
\* T = read_le(data + L - W, W); its i-th offset read is the word at
\* data + T + i * W, the reads going forward; the extent it yields runs from
\* the aligned cursor (the end of the element before) to the end just read;
\* once the offsets pointer is at data + L (the word at L - W is consumed)
\* the extraction returns false.
C7_ArrayOffsetTableForward ==
    LET pre == last.pre
        W == offset_length(pre.len, 0)
        T == TableStart(pre)
        i == (pre.offsets.off - pre.data.off - T) \div W
        al == validate_next_type(WindowOf(pre), 1, <<0>>).alignment
        w == last.item.word
    IN /\ (last.op = "enter_array" /\ last.ret /\ ArrayVar(last.child)
              /\ InBuffer(last.child))
          => last.child.offsets
                 = PtrAdd(last.child.data, TableStart(last.child))
       /\ (IsCall /\ ArrayVar(pre) /\ InBuffer(pre))
          => /\ i >= 0
             /\ pre.offsets = PtrAdd(pre.data, T + i * W)
             /\ w.read
                => /\ w.addr = PtrAdd(pre.data, T + i * W)
                   /\ iter.offsets = PtrAdd(pre.data, T + (i + 1) * W)
                   /\ last.item.size = w.word - align_len(pre.pos, al)
                   /\ last.item.ok
                      => /\ last.item.start
                             = PtrAdd(pre.data, align_len(pre.pos, al))
                         /\ iter.pos = w.word
             /\ pre.offsets.off >= FrameEnd(pre)
                => (~last.ret /\ ~w.read)

\* the "as" frame of ["a", "bb"]: after "a" and "bb" the third next_basic
\* finds the offsets pointer at data + L and returns false
C7_Witness ==
    /\ frame = <<97, 0, 98, 98, 0, 2, 5>>
    /\ last.op = "next_basic"
    /\ last.type = CH_s
    /\ ArrayVar(last.pre)
    /\ last.pre.pos = 5
    /\ last.pre.offsets = DataPtr(7)
    /\ ~last.ret

\* the number of variable-size non-last children among the first c children
VarRank(ch, c) ==
    Cardinality({j \in 1..c : ~ch[j].fixed_size /\ j < Len(ch)})

\* the index of the child whose type starts at signature offset p
ChildAt(ch, p) == CHOOSE c \in 1..Len(ch) : ch[c].sig_start = p

\* the reader the last step initialised
Created == IF last.op = "init" THEN iter ELSE last.child

\* C8: for a struct or dict-entry frame with k variable-size non-last
\* children, init_reader fails if len < k * W and otherwise reads the end of
\* the j-th such child from the word at data + len - j * W; next_item reads
\* the same word for that child, its offsets pointer starting at
\* data + len - W and moving back by W with every read.
C8_StructOffsetTableReverse ==
    LET pre == last.pre
        W == offset_length(pre.len, 0)
        ch == ChildrenOf(pre)
        c == ChildAt(ch, pre.sig_pos)
        cr == Created
        crW == offset_length(cr.len, 0)
        crch == ChildrenOf(cr)
        k == init_num_variable(crch)
    IN /\ ((last.op = "init" \/ (last.op = "enter_struct" /\ last.item.ok))
              /\ ~last.crash)
          => /\ ULt(cr.len, k * crW) => (~last.ret /\ last.words = <<>>)
             /\ ~ULt(cr.len, k * crW)
                => /\ \A j \in 1..Len(last.words) :
                        /\ last.words[j].addr
                               = PtrAdd(cr.data, cr.len - j * crW)
                        /\ ~crch[last.words[j].child].fixed_size
                        /\ VarRank(crch, last.words[j].child) = j
                   /\ last.ret => Len(last.words) = k
                   /\ k > 0 => cr.offsets = PtrAdd(cr.data, cr.len - crW)
       /\ (IsCall /\ StructLike(pre) /\ last.item.word.read)
          => /\ last.item.word.addr
                    = PtrAdd(pre.data, pre.len - VarRank(ch, c) * W)
             /\ pre.offsets = last.item.word.addr
             /\ iter.offsets = PtrAdd(pre.offsets, 0 - W)

\* next_item reads the word of the second variable-size non-last child
C8_Witness ==
    /\ IsCall
    /\ StructLike(last.pre)
    /\ last.item.word.read
    /\ VarRank(ChildrenOf(last.pre),
               ChildAt(ChildrenOf(last.pre), last.pre.sig_pos)) = 2
    /\ Len(frame) >= 3

\* C9: a stored end offset that exceeds the frame length is rejected: the
\* initialisation that reads it from a struct or dict-entry tail table
\* fails, the extraction that reads it from an offset table returns false,
\* and with an array table-start word past the frame every extraction
\* returns false.
C9_OffsetPastFrameRejected ==
    LET pre == last.pre
        cr == Created
    IN /\ ((last.op = "init" \/ (IsCall /\ last.item.ok)) /\ ~last.crash)
          => \A j \in 1..Len(last.words) :
                (last.words[j].child # 0
                     /\ UGt(last.words[j].word, cr.len)) => ~last.ret
       /\ (IsCall /\ last.item.word.read
              /\ UGt(last.item.word.word, pre.len)) => ~last.ret
       /\ (IsCall /\ ArrayVar(pre) /\ InBuffer(pre)
              /\ UGt(TableStart(pre), pre.len)) => ~last.ret

\* the character at the signature cursor lies in the caller's memory
CursorKnown(it) ==
    LET p == PtrAdd(it.sig_start, it.sig_pos)
    IN IF p.seg = "sig" THEN p.off >= 0 /\ p.off <= Len(signature)
       ELSE p.seg = "data" /\ p.off >= 0 /\ p.off < Len(frame)

\* the characters at the signature cursor a call accepts
Expected(op, type) ==
    CASE op = "next_basic" -> {type}
      [] op = "enter_struct" -> {CH_lparen, CH_lbrace}
      [] op = "enter_array" -> {CH_a}
      [] op = "enter_variant" -> {CH_v}
      [] OTHER -> {}

\* the call asked for a type other than the one at the signature cursor
Mismatch ==
    /\ IsCall
    /\ CursorKnown(last.pre)
    /\ Peek(PtrAdd(last.pre.sig_start, last.pre.sig_pos), <<0>>)
           \notin Expected(last.op, last.type)

\* C10: a call whose type differs from the character at the signature
\* cursor returns false and leaves the reader as it was, so that the
\* matching call made next yields the same child.
C10_TypeMismatchConsumesNothing ==
    Mismatch => (~last.ret /\ iter = last.pre)

\* a mismatching next_basic on a reader that is past its first child and
\* has a child left to yield
C10_Witness ==
    /\ Mismatch
    /\ last.op = "next_basic"
    /\ last.pre.sig_pos > 0
    /\ last.pre.sig_pos < last.pre.sig_len
    /\ ULt(last.pre.pos, last.pre.len)

\* ------------------------------------------- the signature grammar
\* The grammar of complete types on a string s without terminator: the index
\* behind the complete type that starts at index i, or 0 if there is none.
BasicLetters == {115, 111, 103, 121, 98, 110, 113, 105, 117, 120, 116, 100, 104}

RECURSIVE TypeEnd(_, _)
RECURSIVE StructEnd(_, _)
StructEnd(s, i) ==
    IF i > Len(s) THEN 0
    ELSE IF s[i] = CH_rparen THEN i + 1
    ELSE IF TypeEnd(s, i) = 0 THEN 0
    ELSE StructEnd(s, TypeEnd(s, i))

TypeEnd(s, i) ==
    IF i > Len(s) THEN 0
    ELSE IF s[i] \in BasicLetters \/ s[i] = CH_v THEN i + 1
    ELSE IF s[i] = CH_a THEN TypeEnd(s, i + 1)
    ELSE IF s[i] = CH_lbrace
    THEN IF i + 1 > Len(s) \/ s[i + 1] \notin BasicLetters THEN 0
         ELSE IF TypeEnd(s, i + 2) = 0 \/ TypeEnd(s, i + 2) > Len(s) THEN 0
         ELSE IF s[TypeEnd(s, i + 2)] # CH_rbrace THEN 0
         ELSE TypeEnd(s, i + 2) + 1
    ELSE IF s[i] = CH_lparen THEN StructEnd(s, i + 1)
    ELSE 0

RECURSIVE TypesFrom(_, _)
TypesFrom(s, i) ==
    IF i > Len(s) THEN TRUE
    ELSE TypeEnd(s, i) # 0 /\ TypesFrom(s, TypeEnd(s, i))

\* s is a non-empty concatenation of complete types
InGrammar(s) == Len(s) > 0 /\ TypesFrom(s, 1)

\* C11: signature_valid returns true exactly when the string (the bytes in
\* front of the first terminator) is a non-empty concatenation of complete
\* types of the grammar, whatever the memory behind the terminator holds.
C11_ValidExactlyOnGrammar ==
    last.op = "valid_signature"
        => (last.value <=> InGrammar(CString(signature)))

\* C12: signature_valid returns true or false for every memory content, and
\* whenever it returns true, num_children of the same string is at least 1
\* and get_alignment of the same string is one of 1, 2, 4, 8.
C12_ValidHasChildrenAndAlignment ==
    last.op = "valid_signature"
        => /\ last.value \in BOOLEAN
           /\ last.value
                => /\ _gvariant_num_children(signature, last.g) >= 1
                   /\ _gvariant_get_alignment(signature, last.g)
                          \in {1, 2, 4, 8}

\* a valid signature of two children, one of them aligned to 8
C12_Witness ==
    /\ last.op = "valid_signature"
    /\ last.value
    /\ Len(CString(signature)) = Len(signature)
    /\ _gvariant_num_children(signature, last.g) = 2
    /\ _gvariant_get_alignment(signature, last.g) = 8

\* ------------------------------------------------- the reference layout
RefAlignUp(n, a) == ((n + a - 1) \div a) * a

\* alignment and size of a fixed-size basic letter
RefBasic(c) ==
    IF c \in {121, 98} THEN 1
    ELSE IF c \in {110, 113} THEN 2
    ELSE IF c \in {105, 117, 104} THEN 4
    ELSE 8

RefMax(a, b) == IF a > b THEN a ELSE b

\* The children from index i up to the end of s or to a closing bracket,
\* laid out behind size bytes: the unpadded size and the maximum alignment.
RECURSIVE RefLayout(_, _, _, _)
RefChild(s, i) ==
    IF s[i] \in {CH_lparen, CH_lbrace}
    THEN IF s[i] = CH_lparen /\ s[i + 1] = CH_rparen
         THEN [size |-> 1, align |-> 1]
         ELSE [size |-> RefAlignUp(RefLayout(s, i + 1, 0, 1).size,
                                   RefLayout(s, i + 1, 0, 1).align),
               align |-> RefLayout(s, i + 1, 0, 1).align]
    ELSE [size |-> RefBasic(s[i]), align |-> RefBasic(s[i])]

RefLayout(s, i, size, max) ==
    IF i > Len(s) \/ s[i] \in {CH_rparen, CH_rbrace}
    THEN [size |-> size, align |-> max]
    ELSE RefLayout(s, TypeEnd(s, i),
                   RefAlignUp(size, RefChild(s, i).align) + RefChild(s, i).size,
                   RefMax(max, RefChild(s, i).align))

RefSize(s) ==
    RefAlignUp(RefLayout(s, 1, 0, 1).size, RefLayout(s, 1, 0, 1).align)

HasVariable(s) == \E k \in 1..Len(s) : s[k] \in {115, 111, 103, 97, 118}

\* C13: for a valid signature get_fixed_size is 0 exactly when the signature
\* holds a variable-size type; otherwise it is the reference layout size,
\* which is positive and a multiple of get_alignment of the signature.
C13_FixedSizeIsReferenceLayout ==
    (last.op = "get_fixed_size" /\ InGrammar(signature))
        => IF HasVariable(signature) THEN last.value = 0
           ELSE /\ last.value = RefSize(signature)
                /\ last.value > 0
                /\ last.value % _gvariant_get_alignment(signature, last.g) = 0

\* a struct of one byte followed by an 8-byte integer: 7 bytes of padding
C13_Witness ==
    /\ last.op = "get_fixed_size"
    /\ InGrammar(signature)
    /\ ~HasVariable(signature)
    /\ signature[1] = CH_lparen
    /\ signature[Len(signature)] = CH_x
    /\ last.value = 16

\* ------------------------------------------------ fixed-size frames
\* the caller's signature is fixed-size and the frame has exactly its size
ExactFixedFrame ==
    /\ _gvariant_is_fixed_size(signature)
    /\ Len(frame) = _gvariant_get_fixed_size(signature, <<0>>)

\* the character of the signature window at the cursor of reader it
CursorChar(it) ==
    IF it.sig_pos < it.sig_len /\ it.sig_start.seg = "sig"
    THEN signature[it.sig_start.off + it.sig_pos + 1]
    ELSE 0

\* the number of complete types from index i of s up to the end of s
RECURSIVE CountTypes(_, _)
CountTypes(s, i) ==
    IF i > Len(s) \/ TypeEnd(s, i) = 0 THEN 0
    ELSE 1 + CountTypes(s, TypeEnd(s, i))

\* C14: over a frame of exactly fixed_size(s) bytes the reader of a
\* fixed-size signature s is created, next_basic of the type at the cursor
\* returns true, and enter_struct at a struct returns true with a child
\* reader over the complete types between the brackets (none for "()").
C14_FixedSizeFrameTraversable ==
    ExactFixedFrame
        => /\ last.op = "init" => last.ret
           /\ (last.op = "next_basic" /\ last.type = CursorChar(last.pre))
                  => last.ret
           /\ (last.op = "enter_struct"
                   /\ CursorChar(last.pre) \in {CH_lparen, CH_lbrace})
                  => /\ last.ret
                     /\ ~last.crash
                     /\ _gvariant_num_children(WindowOf(last.child), <<0>>)
                            = CountTypes(WindowOf(last.child), 1)

\* ------------------------------------------------------------ variants
\* the last call was enter_variant and the extent of the child it consumed
\* lies inside the caller's frame
VariantInFrame ==
    /\ last.op = "enter_variant"
    /\ last.item.called
    /\ last.item.ok
    /\ last.item.size >= 0
    /\ last.item.start.off + last.item.size <= Len(frame)

\* the offsets of the NUL bytes of the extent
ExtentNuls ==
    {k \in last.item.start.off..(last.item.start.off + last.item.size - 1) :
        frame[k + 1] = 0}

\* the bytes of the extent behind offset k
ExtentAfter(k) ==
    SubSeq(frame, k + 2, last.item.start.off + last.item.size)

\* C15: enter_variant returns true only if the extent holds a NUL byte and
\* the bytes behind the last NUL are a valid signature of exactly one
\* complete type and at most 255 bytes; the child reader then is a VARIANT
\* reader whose window is those bytes and whose data is [start, last NUL).
C15_VariantNeedsOneValidType ==
    (VariantInFrame /\ last.ret)
        => /\ ExtentNuls # {}
           /\ Len(ExtentAfter(SetMax(ExtentNuls))) <= 255
           /\ InGrammar(ExtentAfter(SetMax(ExtentNuls)))
           /\ CountTypes(ExtentAfter(SetMax(ExtentNuls)), 1) = 1
           /\ last.child.container_type = "VARIANT"
           /\ last.child.sig_start = DataPtr(SetMax(ExtentNuls) + 1)
           /\ last.child.sig_len = Len(ExtentAfter(SetMax(ExtentNuls)))
           /\ last.child.data = last.item.start
           /\ last.child.len = SetMax(ExtentNuls) - last.item.start.off

\* ------------------------------------------------------------- strings
\* the last call was next_basic of a string type that got its child
StringCall ==
    /\ last.op = "next_basic"
    /\ last.type \in {115, 111, 103}
    /\ last.item.called
    /\ last.item.ok

\* the extent of that child lies inside the caller's frame
StringInFrame ==
    /\ last.item.size >= 0
    /\ last.item.start.off + last.item.size <= Len(frame)

StringNuls ==
    {k \in last.item.start.off..(last.item.start.off + last.item.size - 1) :
        frame[k + 1] = 0}

\* C16: next_basic of a string type returns true only if the child's extent
\* holds a NUL byte, and false if it holds none; the pointer it stores is
\* the start of the extent and lies inside the frame of the reader.
C16_StringHasNulAndLiesInFrame ==
    StringCall
        => /\ (last.ret /\ StringInFrame) => StringNuls # {}
           /\ (StringInFrame /\ StringNuls = {}) => ~last.ret
           /\ last.ret
                => /\ last.out = last.item.start
                   /\ last.out.seg = "data"
                   /\ last.out.off >= last.pre.data.off
                   /\ last.out.off < last.pre.data.off + last.pre.len

\* a string of two bytes that is not the first child of its reader
C16_Witness ==
    /\ StringCall
    /\ StringInFrame
    /\ last.ret
    /\ last.item.start.off > 0
    /\ last.item.size >= 2
    /\ SetMin(StringNuls) > last.item.start.off

\* ------------------------------------------------------ child windows
\* the last call was a successful enter_struct or enter_array on a reader
\* whose window holds a complete type at the cursor
EnteredContainer ==
    /\ last.op \in {"enter_struct", "enter_array"}
    /\ last.ret
    /\ TypeEnd(WindowOf(last.pre), last.pre.sig_pos + 1) # 0

\* the characters of the container type at the cursor of last.pre, without
\* its first character and without its last cut characters
ContainerContents(cut) ==
    SubSeq(WindowOf(last.pre), last.pre.sig_pos + 2,
           TypeEnd(WindowOf(last.pre), last.pre.sig_pos + 1) - 1 - cut)

\* C17: the child reader of enter_struct has as its window the characters
\* strictly between the brackets of the struct or dict entry at the cursor,
\* the child reader of enter_array the element type behind the 'a', whether
\* the parent is an array reader or not.
C17_ChildWindowIsContainerContents ==
    EnteredContainer
        => /\ last.child.sig_start
                  = PtrAdd(last.pre.sig_start, last.pre.sig_pos + 1)
           /\ last.op = "enter_struct"
                  => /\ WindowOf(last.child) = ContainerContents(1)
                     /\ last.child.sig_len = Len(ContainerContents(1))
           /\ last.op = "enter_array"
                  => /\ WindowOf(last.child) = ContainerContents(0)
                     /\ last.child.sig_len = Len(ContainerContents(0))

\* the second struct of an array of structs is entered, and an array inside
\* an array reader
C17_Witness ==
    /\ EnteredContainer
    /\ last.pre.container_type = "ARRAY"
    /\ \/ last.op = "enter_struct" /\ last.pre.pos > 0
       \/ last.op = "enter_array"

\* -------------------------------------------------- offset-word width
\* the width the frame length L asks for; a negative L is above 2^63, every
\* other L of the model is below 2^31
RefWidth(L) ==
    IF L < 0 THEN 8
    ELSE IF L <= 255 THEN 1
    ELSE IF L <= 65535 THEN 2
    ELSE 4

C19_CursorNeverMovesBackward ==
    IsCall
        => /\ ~ULt(iter.pos, last.pre.pos)
           /\ (last.item.called /\ last.item.ok) => last.item.size >= 0

\* -------------------------------------------------------- empty arrays
\* the last call was enter_array at an array that is the last child of a
\* reader that is no array reader, the cursor (aligned) being at the end of
\* the frame: the array is empty
EmptyLastArray ==
    /\ last.op = "enter_array"
    /\ last.pre.container_type \in {"STRUCT", "DICT_ENTRY", "VARIANT"}
    /\ CursorChar(last.pre) = CH_a
    /\ TypeEnd(WindowOf(last.pre), last.pre.sig_pos + 1)
           = Len(WindowOf(last.pre)) + 1
    /\ last.item.called
    /\ last.item.size = 0
    /\ iter.pos = last.pre.len

\* C20: enter_array on an empty array succeeds also where the array is the
\* last child and starts exactly at the end of the frame of its parent.
C20_EmptyLastArrayCanBeEntered ==
    EmptyLastArray => last.ret

\* ------------------------------------------- reads of an initialisation
\* the last step ran gvariant_iter_init_internal over a frame whose length
\* is no wrapped number
InitRan ==
    /\ last.op \in {"init", "enter_struct", "enter_array", "enter_variant"}
    /\ ~last.crash
    /\ Created.data # NULL
    /\ Created.len >= 0

\* the word of offset_len bytes at addr lies inside the frame of reader it
WordInside(it, addr) ==
    /\ addr.seg = it.data.seg
    /\ addr.off >= it.data.off
    /\ addr.off + offset_length(it.len, 0) <= it.data.off + it.len

\* C21: gvariant_iter_init_internal reads only bytes at indices in [0, len)
\* of the frame it is given: every offset word it reads, the table-start
\* word of an array of variable-size elements included, lies inside that
\* frame, so that over an empty frame no byte in front of it is read.
C21_InitReadsInsideFrame ==
    InitRan
        => \A k \in 1..Len(last.words) :
               WordInside(Created, last.words[k].addr)

\* ---------------------------------------------- the buffer of enter_variant
\* C22: for every length of a contained signature that enter_variant takes
\* (0 to 255 bytes behind the last NUL of the extent), the copy and its
\* terminator fit into the local buffer: the index the terminator is written
\* at is smaller than the size of the buffer.
C22_TerminatorInsideBuffer ==
    (last.op = "enter_variant" /\ last.term >= 0)
        => last.term < SignatureSize

====
